---- MODULE Spec2Model ----
(***************************************************************************)
(* Model of scraper/scrape_esb.py: the session-authenticated asynchronous  *)
(* report retrieval workflow (fetch with retry, login, monthly date        *)
(* ranges, report request, queue polling, download, orchestration).        *)
(***************************************************************************)
EXTENDS Integers, Sequences, FiniteSets, TLC

VARIABLES
    config,        \* the loaded configuration (dates, polling settings)
    pc,            \* position of run_scraper / of the generator
    session,       \* "none" | "open" | "closed"  (with requests.Session())
    current_date,  \* generate_monthly_ranges: current_date (NoDate before it runs)
    end_date,      \* generate_monthly_ranges: end_date
    yielded,       \* the windows the generator has yielded so far, in order
    attempts,      \* fetch: attempts made by the call in progress
    fetched,       \* fetch: outcome of the last finished call
    exc,           \* the exception that ended the run: [type, from], or NoExc
    login_calls,   \* how often login was entered
    logged_in,     \* "unknown" | "True" | "False" : what login returned
    requested,     \* labels request_report_generation was called with, in order
    polled,        \* labels poll_report_queue was called with, in order
    downloads,     \* urls download_file was called with, in order
    now,           \* time.time(), read relative to the start of the poll call
    timeout,       \* poll_report_queue: the deadline
    processed_ids, \* poll_report_queue: processed_ids
    download_url,  \* what poll_report_queue returned (NoUrl: None)
    appeared,      \* has a feed of this poll call shown a completed item with the label
    tick,          \* record of the poll tick that has just run
    events,        \* what login saw and what run_scraper called and got back, in order
    html,          \* test_parser: the document the test parses
    rows           \* test_parser: what the test got from parse_list_page

vars == <<config, pc, session, current_date, end_date, yielded, attempts,
          fetched, exc, login_calls, logged_in, requested, polled, downloads,
          now, timeout, processed_ids, download_url, appeared, tick, events,
          html, rows>>

genVars  == <<current_date, end_date, yielded>>
callVars == <<login_calls, requested, polled, downloads>>
pollVars == <<timeout, processed_ids, download_url, appeared, tick>>
testVars == <<html, rows>>

-----------------------------------------------------------------------------
(* Bounds of the model *)

\* the end date lies at most this many calendar months after the start month
MaxMonths == 2
\* a feed holds at most MaxFeed items, with queue ids 1..MaxFeed
MaxFeed == 2
\* a document of the parser test holds at most MaxRows row elements
MaxRows == 3

-----------------------------------------------------------------------------
(* Calendar arithmetic: datetime, timedelta and dateutil.relativedelta *)

NoDate == [y |-> 0, m |-> 0, d |-> 0]

IsLeap(y) == (y % 4 = 0 /\ y % 100 # 0) \/ y % 400 = 0

\* a calendar without leap years
DaysInMonthNoLeap(y, m) ==
    IF m = 2 THEN 28 ELSE IF m \in {4, 6, 9, 11} THEN 30 ELSE 31

DaysInMonth(y, m) ==
    IF m = 2 THEN (IF IsLeap(y) THEN 29 ELSE 28)
    ELSE IF m \in {4, 6, 9, 11} THEN 30 ELSE 31

IsDate(dt) == dt.m \in 1..12 /\ dt.d \in 1..DaysInMonth(dt.y, dt.m)

DatesOf(years) ==
    {dt \in [y : years, m : 1..12, d : 1..31] : IsDate(dt)}

DateLT(a, b) ==
    \/ a.y < b.y
    \/ a.y = b.y /\ a.m < b.m
    \/ a.y = b.y /\ a.m = b.m /\ a.d < b.d

DateLE(a, b) == a = b \/ DateLT(a, b)

\* dt + timedelta(days=1)
NextDay(dt) ==
    IF dt.d < DaysInMonth(dt.y, dt.m) THEN [dt EXCEPT !.d = dt.d + 1]
    ELSE IF dt.m < 12 THEN [y |-> dt.y, m |-> dt.m + 1, d |-> 1]
    ELSE [y |-> dt.y + 1, m |-> 1, d |-> 1]

\* dt + timedelta(days=-1)
PrevDay(dt) ==
    IF dt.d > 1 THEN [dt EXCEPT !.d = dt.d - 1]
    ELSE IF dt.m > 1
         THEN [y |-> dt.y, m |-> dt.m - 1, d |-> DaysInMonth(dt.y, dt.m - 1)]
    ELSE [y |-> dt.y - 1, m |-> 12, d |-> 31]

\* a month added without the carry into the year: December is followed by
\* January of the same year
AddMonthSameYear(dt) ==
    LET nm == IF dt.m = 12 THEN 1 ELSE dt.m + 1
        nd == IF dt.d < DaysInMonth(dt.y, nm) THEN dt.d ELSE DaysInMonth(dt.y, nm)
    IN  [y |-> dt.y, m |-> nm, d |-> nd]

\* dt + relativedelta(months=1): the month rolls over, the day is cut to
\* the length of the new month
AddMonth(dt) ==
    LET ny == IF dt.m = 12 THEN dt.y + 1 ELSE dt.y
        nm == IF dt.m = 12 THEN 1 ELSE dt.m + 1
        nd == IF dt.d < DaysInMonth(ny, nm) THEN dt.d ELSE DaysInMonth(ny, nm)
    IN  [y |-> ny, m |-> nm, d |-> nd]

\* dt + relativedelta(months=1, days=-1): months first, then the days
AddMonthLessDay(dt) == PrevDay(AddMonth(dt))

\* months since year 0, to measure the distance of two dates in months
MonthIndex(dt) == dt.y * 12 + dt.m

(* Text forms of a date: a string of digits is modelled by the tuple of its *)
(* fields in the order the format writes them.                              *)

\* datetime.strptime(s, "%Y-%m-%d")
Strptime_Ymd(s) == [y |-> s[1], m |-> s[2], d |-> s[3]]
\* the configuration's text of a date
Text_Ymd(dt) == <<dt.y, dt.m, dt.d>>
\* dt.strftime("%d-%m-%Y")
Strftime_dmY(dt) == <<dt.d, dt.m, dt.y>>
\* dt.strftime("%Y-%m")
Strftime_Ym(dt) == <<dt.y, dt.m>>
\* reading a "%d-%m-%Y" text back
Parse_dmY(s) == [y |-> s[3], m |-> s[2], d |-> s[1]]

-----------------------------------------------------------------------------
(* generate_monthly_ranges *)

\* the end of the window that starts at cur, without the clamp
WindowEndUnclamped(cur, endd) == AddMonthLessDay(cur)

\* end_of_month_dt, clamped to end_date
WindowEnd(cur, endd) ==
    IF DateLT(endd, AddMonthLessDay(cur)) THEN endd ELSE AddMonthLessDay(cur)

\* the dictionary yielded for current_date
Window(cur, endd) ==
    [start |-> Strftime_dmY(cur),
     end   |-> Strftime_dmY(WindowEnd(cur, endd)),
     label |-> Strftime_Ym(cur)]

\* a loop that stops a window early
HasNextStrict(cur, endd) == DateLT(cur, endd)

\* a loop that runs a day past the end
HasNextOffByOne(cur, endd) == DateLE(cur, NextDay(endd))

\* the loop condition of the generator: while current_date <= end_date
HasNext(cur, endd) == DateLE(cur, endd)

\* everything the generator yields from current_date on
RECURSIVE RangesFrom(_, _)
RangesFrom(cur, endd) ==
    IF HasNext(cur, endd)
    THEN <<Window(cur, endd)>> \o RangesFrom(AddMonth(cur), endd)
    ELSE <<>>

\* list(generate_monthly_ranges(start_date_str, end_date_str))
generate_monthly_ranges(start_date_str, end_date_str) ==
    RangesFrom(Strptime_Ymd(start_date_str), Strptime_Ymd(end_date_str))

-----------------------------------------------------------------------------
(* Exceptions and fetch's retry policy *)

\* @retry(stop=stop_after_attempt(3), ...)
StopAfterAttempt == 3
\* wait_exponential(min=2, max=10): multiplier 1, base 2
WaitMin == 2
WaitMax == 10

RECURSIVE Pow2(_)
Pow2(n) == IF n = 0 THEN 1 ELSE 2 * Pow2(n - 1)

\* the wait after the attempt-th failed attempt: 2^(attempt-1), kept in [min, max]
WaitExponential(attempt) ==
    LET raw == Pow2(attempt - 1)
        cut == IF raw < WaitMax THEN raw ELSE WaitMax
    IN  IF cut < WaitMin THEN WaitMin ELSE cut

\* the classes an exception is an instance of
ClassesOf(type) ==
    CASE type = "RetryError"      -> {"RetryError", "Exception"}
      [] type = "ConnectionError" -> {"ConnectionError", "RequestException", "Exception"}
      [] type = "JSONDecodeError" -> {"JSONDecodeError", "ValueError", "Exception"}
      [] OTHER                    -> {type, "Exception"}

\* what a fetch call raises when every attempt failed: the decorator is used
\* without reraise, so tenacity raises its RetryError
FetchRaises == "RetryError"

\* the except clause of each function
Catches(fn) ==
    CASE fn = "login"                     -> {"RequestException"}
      [] fn = "request_report_generation" -> {"RequestException"}
      [] fn = "poll_report_queue"         -> {"RequestException", "ValueError"}
      [] fn = "download_file"             -> {"RequestException"}

Caught(fn, type) == ClassesOf(type) \cap Catches(fn) # {}

\* the places fetch is called from, and the function each lies in
FetchSites == {"login_get", "login_post", "req_get", "req_post",
               "poll_fetch", "dl_fetch"}

FunctionOf(site) ==
    CASE site \in {"login_get", "login_post"} -> "login"
      [] site \in {"req_get", "req_post"}     -> "request_report_generation"
      [] site = "poll_fetch"                  -> "poll_report_queue"
      [] site = "dl_fetch"                    -> "download_file"

NoExc == [type |-> "none", from |-> "none"]

NoFetch == [site |-> "none", result |-> "none"]

\* durations one HTTP attempt may take
FetchDurs == {0, 1}

-----------------------------------------------------------------------------
(* The queue feed and the scan of one poll tick *)

NoUrl == [base |-> "none", id |-> 0]

\* urljoin(config["urls"]["login"], download_tag["href"])
Urljoin(id) == [base |-> "login", id |-> id]

\* the labels an item's text may name
ItemLabels == {<<2024, 1>>, <<2024, 2>>}

\* an item of the feed: the id of its download link (0: no such link), whether
\* its text contains "Completed", and the label its text contains. Items
\* without a link are tried as completed ones only.
Items ==
    [id : 1..MaxFeed, completed : BOOLEAN, label : ItemLabels]
        \cup [id : {0}, completed : {TRUE}, label : ItemLabels]

\* feeds: at most MaxFeed items, no queue id twice
Feeds ==
    {f \in UNION {[1..n -> Items] : n \in 0..MaxFeed} :
        \A i, j \in DOMAIN f : (i # j /\ f[i].id # 0) => f[i].id # f[j].id}

\* a scan that tests the match before it looks the id up in processed
RECURSIVE ScanMatchBeforeSeen(_, _, _, _)
ScanMatchBeforeSeen(items, i, processed, label) ==
    IF i > Len(items)
    THEN [url |-> NoUrl, processed |-> processed, examined |-> Len(items)]
    ELSE LET item == items[i] IN
         IF item.id = 0
         THEN ScanMatchBeforeSeen(items, i + 1, processed, label)
         ELSE IF item.completed /\ item.label = label
         THEN [url |-> Urljoin(item.id), processed |-> processed, examined |-> i]
         ELSE IF item.id \in processed
         THEN ScanMatchBeforeSeen(items, i + 1, processed, label)
         ELSE IF item.completed
         THEN ScanMatchBeforeSeen(items, i + 1, processed \cup {item.id}, label)
         ELSE ScanMatchBeforeSeen(items, i + 1, processed, label)

\* a scan that goes on after a match and returns the last one
RECURSIVE ScanLastMatch(_, _, _, _)
ScanLastMatch(items, i, processed, label) ==
    IF i > Len(items)
    THEN [url |-> NoUrl, processed |-> processed, examined |-> Len(items)]
    ELSE LET item == items[i]
             rest == ScanLastMatch(items, i + 1, processed, label)
         IN
         IF item.id = 0 \/ item.id \in processed
         THEN rest
         ELSE IF item.completed /\ item.label = label
         THEN (IF rest.url # NoUrl THEN rest
               ELSE [url |-> Urljoin(item.id), processed |-> processed,
                     examined |-> Len(items)])
         ELSE IF item.completed
         THEN ScanLastMatch(items, i + 1, processed \cup {item.id}, label)
         ELSE rest

\* a scan that returns the first completed item, whatever its label
RECURSIVE ScanAnyCompleted(_, _, _, _)
ScanAnyCompleted(items, i, processed, label) ==
    IF i > Len(items)
    THEN [url |-> NoUrl, processed |-> processed, examined |-> Len(items)]
    ELSE LET item == items[i] IN
         IF item.id = 0 \/ item.id \in processed
         THEN ScanAnyCompleted(items, i + 1, processed, label)
         ELSE IF item.completed
         THEN [url |-> Urljoin(item.id), processed |-> processed, examined |-> i]
         ELSE ScanAnyCompleted(items, i + 1, processed, label)

\* the loop over the items of one tick, from items[i] on: what is returned,
\* processed_ids after it, and the position the loop stopped at
RECURSIVE Scan(_, _, _, _)
Scan(items, i, processed, label) ==
    IF i > Len(items)
    THEN [url |-> NoUrl, processed |-> processed, examined |-> Len(items)]
    ELSE LET item == items[i] IN
         IF item.id = 0
         THEN Scan(items, i + 1, processed, label)
         ELSE IF item.id \in processed
         THEN Scan(items, i + 1, processed, label)
         ELSE IF item.completed /\ item.label = label
         THEN [url |-> Urljoin(item.id), processed |-> processed, examined |-> i]
         ELSE IF item.completed
         THEN Scan(items, i + 1, processed \cup {item.id}, label)
         ELSE Scan(items, i + 1, processed, label)

\* the positions of a feed whose item has a download link, an id not yet
\* processed, and a text with both "Completed" and the label
Eligible(items, processed, label) ==
    {i \in DOMAIN items :
        /\ items[i].id # 0
        /\ items[i].id \notin processed
        /\ items[i].completed
        /\ items[i].label = label}

Least(S) == CHOOSE i \in S : \A j \in S : i <= j

NoTick == [outcome |-> "none", logged |-> "none", deadline |-> 0,
           first |-> 0, firstUrl |-> NoUrl, matches |-> 0, examined |-> 0,
           wrong |-> {},
           otherFirst |-> FALSE, reappeared |-> FALSE]

-----------------------------------------------------------------------------
(* Configurations *)

\* rate_limit_seconds is <<>> when the configuration has no such key
Config(start, endd, t, i) ==
    [start_date |-> Text_Ymd(start), end_date |-> Text_Ymd(endd),
     timeout_seconds |-> t, interval_seconds |-> i, rate_limit_seconds |-> <<>>]

\* float(config.get("rate_limit_seconds", 5.0))
DefaultRateLimit == 5
RateLimit(c) ==
    IF c.rate_limit_seconds = <<>> THEN DefaultRateLimit ELSE c.rate_limit_seconds[1]

\* polling_settings tried, <<timeout_seconds, interval_seconds>>: a deadline
\* that has passed at once, and deadlines that leave room for two ticks
PollingSettings == {<<0, 1>>, <<2, 1>>, <<3, 2>>}

\* the dates of the runs: an end before the start (a year, a month, a day
\* before), one range, two ranges
RunStartDate == [y |-> 2024, m |-> 1, d |-> 1]
RunEnds  == {[y |-> 2023, m |-> 1, d |-> 1], [y |-> 2023, m |-> 12, d |-> 15],
             [y |-> 2023, m |-> 12, d |-> 31], [y |-> 2024, m |-> 1, d |-> 15],
             [y |-> 2024, m |-> 2, d |-> 15]}

\* every run without the key rate_limit_seconds, and one run with it
RunConfigs ==
    {Config(RunStartDate, e, p[1], p[2]) : e \in RunEnds, p \in PollingSettings}
        \cup {[Config(RunStartDate, [y |-> 2024, m |-> 2, d |-> 15], 0, 1)
                  EXCEPT !.rate_limit_seconds = <<2>>]}

\* the dates the partitioner is tried on: every start day of a common year
\* and a leap year, every end from the month before to MaxMonths months later
StartDates == DatesOf(2023..2024)
EndDatesOf(start) ==
    {e \in DatesOf(2022..2025) :
        MonthIndex(e) - MonthIndex(start) \in -1..MaxMonths}

-----------------------------------------------------------------------------
(* tests/test_parser.py *)

\* the names the module scrape_esb binds at its top level: its imports, its
\* logger and its functions
ModuleNames ==
    {"argparse", "time", "yaml", "logging", "os", "re", "Dict", "Any",
     "Optional", "Generator", "datetime", "relativedelta", "urljoin",
     "requests", "BeautifulSoup", "retry", "stop_after_attempt",
     "wait_exponential", "tqdm", "logger", "fetch", "get_csrf_token", "login",
     "generate_monthly_ranges", "request_report_generation",
     "poll_report_queue", "download_file", "run_scraper", "main"}

\* the configuration of the test: the selector of the rows and of each field
TestConfig ==
    [list_selector |-> ".company-row",
     fields |-> [company_name |-> ".company-name", period |-> ".period",
                 sales |-> ".sales"]]

\* the row elements a document may hold: the texts of the three spans
RowElements ==
    [company_name : {"ABC Corp", "XYZ Ltd"}, period : {"2024-Q1"},
     sales : {"1,000,000", "500,000"}]

\* a document is the sequence of its .company-row elements
Documents == UNION {[1..n -> RowElements] : n \in 0..MaxRows}

-----------------------------------------------------------------------------
(* The trace of a run: what login saw, and the calls run_scraper made and *)
(* what they returned                                                       *)

NoLabel == <<0, 0>>

\* kind: "login_page" (ok: a CSRF token was found), "login_post" (signals: the
\* failure signals of the answer), "request" (label), "request_ret" (ok),
\* "poll" (label), "poll_ret" (url), "download" (url), "download_ret",
\* "sleep" (secs)
Event(kind) ==
    [kind |-> kind, label |-> NoLabel, url |-> NoUrl, ok |-> FALSE,
     signals |-> {}, secs |-> 0]

Last(seq) == seq[Len(seq)]

-----------------------------------------------------------------------------
(* Initial states *)

Idle ==
    /\ session = "none"
    /\ current_date = NoDate
    /\ end_date = NoDate
    /\ yielded = <<>>
    /\ attempts = 0
    /\ fetched = NoFetch
    /\ exc = NoExc
    /\ login_calls = 0
    /\ logged_in = "unknown"
    /\ requested = <<>>
    /\ polled = <<>>
    /\ downloads = <<>>
    /\ now = 0
    /\ timeout = 0
    /\ processed_ids = {}
    /\ download_url = NoUrl
    /\ appeared = FALSE
    /\ tick = NoTick
    /\ events = <<>>
    /\ rows = <<>>

\* run_scraper is about to start
Init ==
    /\ config \in RunConfigs
    /\ pc = "start"
    /\ html = <<>>
    /\ Idle

\* generate_monthly_ranges(start, end) has been called, nothing yielded yet
InitRanges ==
    /\ \E s \in StartDates : \E e \in EndDatesOf(s) : config = Config(s, e, 0, 1)
    /\ pc = "gen_new"
    /\ html = <<>>
    /\ Idle

\* tests/test_parser.py is about to be loaded: its configuration and a
\* document are at hand
InitTest ==
    /\ config = TestConfig
    /\ pc = "test_import"
    /\ html \in Documents
    /\ Idle

-----------------------------------------------------------------------------
(* generate_monthly_ranges as a generator *)

\* the first lines of the generator: both dates are parsed
GenStart ==
    /\ pc = "gen_new"
    /\ current_date' = Strptime_Ymd(config.start_date)
    /\ end_date' = Strptime_Ymd(config.end_date)
    /\ pc' = "gen"
    /\ UNCHANGED <<config, testVars, events, session, yielded, attempts, fetched, exc, logged_in,
                   callVars, now, pollVars>>

\* one pass of the while loop: yield the window, advance by a month
GenYield ==
    /\ pc = "gen"
    /\ HasNext(current_date, end_date)
    /\ yielded' = Append(yielded, Window(current_date, end_date))
    /\ current_date' = AddMonth(current_date)
    /\ UNCHANGED <<config, testVars, events, pc, session, end_date, attempts, fetched, exc,
                   logged_in, callVars, now, pollVars>>

\* the loop condition fails: the generator is exhausted
GenReturn ==
    /\ pc = "gen"
    /\ ~HasNext(current_date, end_date)
    /\ pc' = "gen_done"
    /\ UNCHANGED <<config, testVars, events, session, genVars, attempts, fetched, exc, logged_in,
                   callVars, now, pollVars>>

-----------------------------------------------------------------------------
(* Exceptions, and fetch's failing attempts *)

\* an exception that leaves run_scraper without the session being closed
RaiseSessionLeftOpen(fn, type) ==
    IF Caught(fn, type)
    THEN /\ exc' = exc
         /\ IF fn = "login"
            THEN /\ logged_in' = "False" /\ pc' = "done" /\ session' = "closed"
                 /\ UNCHANGED events
            ELSE /\ pc' = CASE fn = "poll_report_queue"         -> "poll_sleep"
                            [] fn = "request_report_generation" -> "req_ret"
                            [] OTHER                            -> "pace"
                 /\ events' = CASE fn = "request_report_generation" ->
                                     Append(events, Event("request_ret"))
                                [] fn = "download_file" ->
                                     Append(events, Event("download_ret"))
                                [] OTHER -> events
                 /\ UNCHANGED <<logged_in, session>>
    ELSE /\ exc' = [type |-> type, from |-> fn]
         /\ pc' = "crashed"
         /\ UNCHANGED <<logged_in, events, session>>

\* an exception of the given type is raised inside fn: fn's except clause
\* handles it, or it leaves fn and run_scraper (the with block closes the
\* session on the way out)
Raise(fn, type) ==
    IF Caught(fn, type)
    THEN /\ exc' = exc
         /\ IF fn = "login"
            THEN /\ logged_in' = "False" /\ pc' = "done" /\ session' = "closed"
                 /\ UNCHANGED events
            ELSE /\ pc' = CASE fn = "poll_report_queue"         -> "poll_sleep"
                            [] fn = "request_report_generation" -> "req_ret"
                            [] OTHER                            -> "pace"
                 /\ events' = CASE fn = "request_report_generation" ->
                                     Append(events, Event("request_ret"))
                                [] fn = "download_file" ->
                                     Append(events, Event("download_ret"))
                                [] OTHER -> events
                 /\ UNCHANGED <<logged_in, session>>
    ELSE /\ exc' = [type |-> type, from |-> fn]
         /\ pc' = "crashed"
         /\ session' = "closed"
         /\ UNCHANGED <<logged_in, events>>

\* the record of a poll tick that failed
FailedTick(outcome, type) ==
    [NoTick EXCEPT !.outcome = outcome,
                   !.logged = IF Caught("poll_report_queue", type)
                              THEN "warning" ELSE "none",
                   !.deadline = timeout]

\* one attempt of fetch fails (network failure or raise_for_status): tenacity
\* waits and tries again, or gives up after the last attempt
FetchFails ==
    /\ pc \in FetchSites
    /\ attempts < StopAfterAttempt
    /\ \E d \in FetchDurs :
        LET n == attempts + 1
            inPoll == pc = "poll_fetch"
        IN  IF n < StopAfterAttempt
            THEN /\ attempts' = n
                 /\ now' = IF inPoll THEN now + d + WaitExponential(n) ELSE now
                 /\ UNCHANGED <<pc, session, exc, logged_in, fetched, tick, events>>
            ELSE /\ attempts' = 0
                 /\ now' = IF inPoll THEN now + d ELSE now
                 /\ fetched' = [site |-> pc, result |-> FetchRaises]
                 /\ Raise(FunctionOf(pc), FetchRaises)
                 /\ tick' = IF inPoll
                            THEN FailedTick("transport_error", FetchRaises)
                            ELSE tick
    /\ UNCHANGED <<config, testVars, genVars, callVars, timeout, processed_ids,
                   download_url, appeared>>

\* the call of fetch at pc returns a response with this attempt
Returned == [site |-> pc, result |-> "response"]

-----------------------------------------------------------------------------
(* run_scraper and the functions it calls *)

\* run_scraper opens the configuration; when the file is there it opens the
\* session and calls login
RunStart ==
    /\ pc = "start"
    /\ \E found \in BOOLEAN :
        IF found
        THEN /\ session' = "open"
             /\ login_calls' = login_calls + 1
             /\ pc' = "login_get"
        ELSE /\ pc' = "done"
             /\ UNCHANGED <<session, login_calls>>
    /\ UNCHANGED <<config, testVars, events, genVars, attempts, fetched, exc, logged_in, requested,
                   polled, downloads, now, pollVars>>

\* login returned False, but run_scraper goes on to the date ranges
LoginFailedRunGoesOn ==
    /\ logged_in' = "False"
    /\ pc' = "loop"
    /\ session' = session

\* login returned False: run_scraper logs and returns, the session closes
LoginFailed ==
    /\ logged_in' = "False"
    /\ pc' = "done"
    /\ session' = "closed"

\* login: the GET of the login page succeeds; the token is there or not
LoginGetOk ==
    /\ pc = "login_get"
    /\ attempts < StopAfterAttempt
    /\ fetched' = Returned
    /\ attempts' = 0
    /\ \E token \in BOOLEAN :
        /\ events' = Append(events, [Event("login_page") EXCEPT !.ok = token])
        /\ IF token
           THEN pc' = "login_post" /\ UNCHANGED <<logged_in, session>>
           ELSE LoginFailed
    /\ UNCHANGED <<config, testVars, genVars, exc, callVars, now, pollVars>>

\* the failure signals an answer to the POST carries
Signals(urlHasLogin, bodyHasForm) ==
    (IF urlHasLogin THEN {"site/login"} ELSE {})
        \cup (IF bodyHasForm THEN {"login-form"} ELSE {})

\* login looks at the final URL only
LoginRejectedUrlOnly(urlHasLogin, bodyHasForm) == urlHasLogin

\* "site/login" in str(resp_post.url) or "login-form" in resp_post.text
LoginRejected(urlHasLogin, bodyHasForm) == urlHasLogin \/ bodyHasForm

\* login: the POST succeeds; the answer shows the login page again or not.
\* On True run_scraper creates the generator of the date ranges.
LoginPostOk ==
    /\ pc = "login_post"
    /\ attempts < StopAfterAttempt
    /\ fetched' = Returned
    /\ attempts' = 0
    /\ \E urlHasLogin, bodyHasForm \in BOOLEAN :
        /\ events' = Append(events, [Event("login_post") EXCEPT
                                !.signals = Signals(urlHasLogin, bodyHasForm)])
        /\ IF LoginRejected(urlHasLogin, bodyHasForm)
           THEN LoginFailed /\ UNCHANGED <<current_date, end_date>>
           ELSE /\ logged_in' = "True"
                /\ current_date' = Strptime_Ymd(config.start_date)
                /\ end_date' = Strptime_Ymd(config.end_date)
                /\ pc' = "loop"
                /\ UNCHANGED session
    /\ UNCHANGED <<config, testVars, yielded, exc, callVars, now, pollVars>>

\* the for loop takes the next date range and calls request_report_generation,
\* or the generator is exhausted and run_scraper ends
LoopNext ==
    /\ pc = "loop"
    /\ IF HasNext(current_date, end_date)
       THEN /\ yielded' = Append(yielded, Window(current_date, end_date))
            /\ current_date' = AddMonth(current_date)
            /\ requested' = Append(requested, Window(current_date, end_date).label)
            /\ events' = Append(events, [Event("request") EXCEPT
                              !.label = Window(current_date, end_date).label])
            /\ pc' = "req_get"
            /\ UNCHANGED session
       ELSE /\ pc' = "done"
            /\ session' = "closed"
            /\ UNCHANGED <<yielded, current_date, requested, events>>
    /\ UNCHANGED <<config, testVars, end_date, attempts, fetched, exc, login_calls,
                   logged_in, polled, downloads, now, pollVars>>

\* request_report_generation: the GET of the report page succeeds
RequestGetOk ==
    /\ pc = "req_get"
    /\ attempts < StopAfterAttempt
    /\ fetched' = Returned
    /\ attempts' = 0
    /\ \E token \in BOOLEAN :
        IF token
        THEN pc' = "req_post" /\ UNCHANGED events
        ELSE pc' = "req_ret" /\ events' = Append(events, Event("request_ret"))
    /\ UNCHANGED <<config, testVars, session, genVars, exc, logged_in, callVars, now,
                   pollVars>>

\* request_report_generation: the POST succeeds, it returns True
RequestPostOk ==
    /\ pc = "req_post"
    /\ attempts < StopAfterAttempt
    /\ fetched' = Returned
    /\ attempts' = 0
    /\ events' = Append(events, [Event("request_ret") EXCEPT !.ok = TRUE])
    /\ pc' = "req_ret"
    /\ UNCHANGED <<config, testVars, session, genVars, exc, logged_in, callVars, now,
                   pollVars>>

\* run_scraper calls poll_report_queue for the range at hand, which sets its
\* deadline
CallPoll ==
    /\ polled' = Append(polled, Last(yielded).label)
    /\ events' = Append(events, [Event("poll") EXCEPT !.label = Last(yielded).label])
    /\ now' = 0
    /\ timeout' = 0 + config.timeout_seconds
    /\ processed_ids' = {}
    /\ download_url' = NoUrl
    /\ appeared' = FALSE
    /\ tick' = NoTick
    /\ pc' = "poll_loop"

\* run_scraper polls whatever request_report_generation returned
AfterRequestPollsAnyway ==
    /\ pc = "req_ret"
    /\ CallPoll
    /\ UNCHANGED <<config, testVars, session, genVars, attempts, fetched, exc, logged_in,
                   login_calls, requested, downloads>>

\* run_scraper after request_report_generation returned: on True it calls
\* poll_report_queue, on False it goes to the pacing sleep
AfterRequest ==
    /\ pc = "req_ret"
    /\ IF Last(events).ok
       THEN CallPoll
       ELSE pc' = "pace" /\ UNCHANGED <<polled, events, now, pollVars>>
    /\ UNCHANGED <<config, testVars, session, genVars, attempts, fetched, exc, logged_in,
                   login_calls, requested, downloads>>

\* the label poll_report_queue was called with
Target == polled[Len(polled)]

\* poll_report_queue: the loop condition; past the deadline it returns None
PollCheck ==
    /\ pc = "poll_loop"
    /\ pc' = IF now < timeout THEN "poll_fetch" ELSE "poll_ret"
    /\ UNCHANGED <<config, testVars, events, session, genVars, attempts, fetched, exc, logged_in,
                   callVars, now, pollVars>>

\* the record of a tick whose feed was scanned: the earliest eligible position
\* and its url, the number of eligible positions, and, when the scan returned a url, the position it stopped at
\* and the ids of the linked items whose text lacks the label
ScannedTick(feed, scan) ==
    LET elig == Eligible(feed, processed_ids, Target)
        ret  == scan.url # NoUrl
    IN
    [outcome    |-> "ok",
     logged     |-> "none",
     deadline   |-> timeout,
     first      |-> IF elig = {} THEN 0 ELSE Least(elig),
     firstUrl   |-> IF elig = {} THEN NoUrl ELSE Urljoin(feed[Least(elig)].id),
     matches    |-> Cardinality(elig),
     examined   |-> IF ret THEN scan.examined ELSE 0,
     wrong      |-> IF ret
                    THEN {feed[i].id : i \in {j \in DOMAIN feed :
                              feed[j].id # 0 /\ feed[j].label # Target}}
                    ELSE {},
     otherFirst |-> /\ Len(feed) >= 2
                    /\ feed[1].id # 0 /\ feed[1].completed /\ feed[1].label # Target
                    /\ 2 \in elig,
     reappeared |-> \E i \in DOMAIN feed :
                        /\ feed[i].id \in processed_ids
                        /\ feed[i].completed /\ feed[i].label = Target]

\* poll_report_queue: the GET of the queue succeeds after some time
PollFetchOk ==
    /\ pc = "poll_fetch"
    /\ attempts < StopAfterAttempt
    /\ fetched' = Returned
    /\ attempts' = 0
    /\ \E d \in FetchDurs : now' = now + d
    /\ pc' = "poll_parse"
    /\ UNCHANGED <<config, testVars, events, session, genVars, exc, logged_in, callVars, pollVars>>

\* poll_report_queue: the JSON decodes and the items are scanned: a match is
\* returned, else the loop goes to its sleep
PollTickOk ==
    /\ pc = "poll_parse"
    /\ \E feed \in Feeds :
        LET scan == Scan(feed, 1, processed_ids, Target) IN
        /\ processed_ids' = scan.processed
        /\ download_url' = scan.url
        /\ pc' = IF scan.url # NoUrl THEN "poll_ret" ELSE "poll_sleep"
        /\ tick' = ScannedTick(feed, scan)
        /\ appeared' = (appeared \/ \E i \in DOMAIN feed :
                            feed[i].completed /\ feed[i].label = Target)
    /\ UNCHANGED <<config, testVars, events, session, genVars, attempts, fetched, exc, logged_in,
                   callVars, now, timeout>>

\* poll_report_queue: resp.json() fails
PollTickBadJson ==
    /\ pc = "poll_parse"
    /\ Raise("poll_report_queue", "JSONDecodeError")
    /\ tick' = FailedTick("json_error", "JSONDecodeError")
    /\ UNCHANGED <<config, testVars, genVars, attempts, fetched, callVars, now, timeout,
                   processed_ids, download_url, appeared>>

\* poll_report_queue: time.sleep(interval_seconds) at the end of a tick
PollSleep ==
    /\ pc = "poll_sleep"
    /\ now' = now + config.interval_seconds
    /\ tick' = NoTick
    /\ pc' = "poll_loop"
    /\ UNCHANGED <<config, testVars, events, session, genVars, attempts, fetched, exc, logged_in,
                   callVars, timeout, processed_ids, download_url, appeared>>

\* run_scraper hands whatever poll_report_queue returned to download_file
AfterPollDownloadsAnyway ==
    /\ pc = "poll_ret"
    /\ downloads' = Append(downloads, download_url)
    /\ events' = events \o <<[Event("poll_ret") EXCEPT !.url = download_url],
                             [Event("download") EXCEPT !.url = download_url]>>
    /\ pc' = "dl_fetch"
    /\ tick' = NoTick
    /\ UNCHANGED <<config, testVars, session, genVars, attempts, fetched, exc, logged_in,
                   login_calls, requested, polled, now, timeout, processed_ids,
                   download_url, appeared>>

\* run_scraper after poll_report_queue returned: download_file is called
\* with the url, or the range is skipped
AfterPoll ==
    /\ pc = "poll_ret"
    /\ IF download_url # NoUrl
       THEN /\ downloads' = Append(downloads, download_url)
            /\ events' = events \o <<[Event("poll_ret") EXCEPT !.url = download_url],
                                     [Event("download") EXCEPT !.url = download_url]>>
            /\ pc' = "dl_fetch"
       ELSE /\ events' = Append(events, Event("poll_ret"))
            /\ pc' = "pace"
            /\ UNCHANGED downloads
    /\ tick' = NoTick
    /\ UNCHANGED <<config, testVars, session, genVars, attempts, fetched, exc, logged_in,
                   login_calls, requested, polled, now, timeout, processed_ids,
                   download_url, appeared>>

\* download_file: the GET succeeds; the body streams to disk or breaks off
DownloadOk ==
    /\ pc = "dl_fetch"
    /\ attempts < StopAfterAttempt
    /\ fetched' = Returned
    /\ attempts' = 0
    /\ \E streamed \in BOOLEAN :
        IF streamed
        THEN /\ pc' = "pace"
             /\ events' = Append(events, Event("download_ret"))
             /\ UNCHANGED <<exc, logged_in, session>>
        ELSE Raise("download_file", "ConnectionError")
    /\ UNCHANGED <<config, testVars, genVars, callVars, now, pollVars>>

\* run_scraper: time.sleep(rate_limit) at the end of a range
Pace ==
    /\ pc = "pace"
    /\ events' = Append(events, [Event("sleep") EXCEPT !.secs = RateLimit(config)])
    /\ pc' = "loop"
    /\ UNCHANGED <<config, testVars, session, genVars, attempts, fetched, exc, logged_in,
                   callVars, now, pollVars>>

-----------------------------------------------------------------------------
(* tests/test_parser.py: loading the test module *)

\* from scrape_esb import parse_list_page: the name is bound in the module,
\* or the import raises ImportError and the test is not run
TestImport ==
    /\ pc = "test_import"
    /\ IF "parse_list_page" \in ModuleNames
       THEN pc' = "test_call" /\ UNCHANGED exc
       ELSE /\ pc' = "test_error"
            /\ exc' = [type |-> "ImportError", from |-> "test_parser"]
    /\ UNCHANGED <<config, testVars, events, session, genVars, attempts, fetched,
                   logged_in, callVars, now, pollVars>>

-----------------------------------------------------------------------------
(* Specifications *)

Next ==
    \/ RunStart
    \/ FetchFails
    \/ LoginGetOk
    \/ LoginPostOk
    \/ LoopNext
    \/ RequestGetOk
    \/ RequestPostOk
    \/ AfterRequest
    \/ PollCheck
    \/ PollFetchOk
    \/ PollTickOk
    \/ PollTickBadJson
    \/ PollSleep
    \/ AfterPoll
    \/ DownloadOk
    \/ Pace

\* a run of run_scraper
Spec == Init /\ [][Next]_vars

NextRanges == GenStart \/ GenYield \/ GenReturn

\* generate_monthly_ranges alone, run to exhaustion
SpecRanges == InitRanges /\ [][NextRanges]_vars

NextTest == TestImport

\* the parser test alone
SpecTest == InitTest /\ [][NextTest]_vars

-----------------------------------------------------------------------------
(* Properties *)

CfgStart == Strptime_Ymd(config.start_date)
CfgEnd   == Strptime_Ymd(config.end_date)
WStart(i) == Parse_dmY(yielded[i].start)
WEnd(i)   == Parse_dmY(yielded[i].end)

\* C1: for start <= end the windows yielded are contiguous (each starts the
\* day after the one before ends), the first starts at start, none ends after
\* end, and once the generator is exhausted the last one ends at end.
C1_WindowsCoverInterval ==
    /\ \A i \in 1..Len(yielded) :
          DateLE(WStart(i), WEnd(i)) /\ DateLE(WEnd(i), CfgEnd)
    /\ \A i \in 2..Len(yielded) : WStart(i) = NextDay(WEnd(i - 1))
    /\ Len(yielded) >= 1 => WStart(1) = CfgStart
    /\ (pc = "gen_done" /\ DateLE(CfgStart, CfgEnd)) =>
          /\ Len(yielded) >= 1
          /\ WEnd(Len(yielded)) = CfgEnd

\* three windows from the 31st of January of a leap year, all yielded
C1_Witness ==
    /\ pc = "gen_done"
    /\ CfgStart = [y |-> 2024, m |-> 1, d |-> 31]
    /\ Len(yielded) = 3

\* the run is over, by a return or by an exception
RunEnded == pc \in {"done", "crashed"}

\* C2: after a successful login every date range of the configured interval
\* gets its call of request_report_generation, in order, whatever failed in
\* the ranges before.
C2_EveryRangeRequested ==
    (RunEnded /\ logged_in = "True") =>
        requested = [i \in 1..Len(generate_monthly_ranges(config.start_date,
                                                         config.end_date)) |->
                        generate_monthly_ranges(config.start_date,
                                                config.end_date)[i].label]

\* C3: no exception leaves login.
C3_LoginNeverRaises == exc.from # "login"

\* C4: when login returned False the run is over with login entered once and
\* without any report request, poll or download.
C4_LoginFailureAborts ==
    /\ login_calls <= 1
    /\ logged_in = "False" =>
          /\ pc = "done"
          /\ login_calls = 1
          /\ requested = <<>>
          /\ polled = <<>>
          /\ downloads = <<>>

\* login returned False in a run whose interval holds two ranges
C4_Witness ==
    /\ logged_in = "False"
    /\ pc = "done"
    /\ Len(generate_monthly_ranges(config.start_date, config.end_date)) = 2

\* C5: a tick whose feed was read and holds an eligible item (download link,
\* id not processed, text with Completed and the label) makes the call return
\* at once the url of the earliest such item, having examined no later item.
C5_FirstMatchWins ==
    (tick.outcome = "ok" /\ tick.first # 0) =>
        /\ pc = "poll_ret"
        /\ download_url = tick.firstUrl
        /\ tick.examined = tick.first

\* a tick whose feed held two eligible items has returned
C5_Witness ==
    /\ tick.outcome = "ok"
    /\ tick.matches >= 2
    /\ pc = "poll_ret"

\* C6: the url poll_report_queue returns is never that of an item whose text
\* lacks the label polled for.
C6_NeverOtherLabel ==
    (pc = "poll_ret" /\ download_url # NoUrl) =>
        /\ download_url.base = "login"
        /\ download_url.id \notin tick.wrong

\* the feed held a completed item of another label before the matching one,
\* and the call returned
C6_Witness ==
    /\ pc = "poll_ret"
    /\ download_url # NoUrl
    /\ tick.otherFirst

InPoll == pc \in {"poll_loop", "poll_fetch", "poll_parse", "poll_sleep"}

\* C7: within one poll call processed_ids only grows, and the url returned is
\* never that of an id recorded as processed before the tick.
C7_ProcessedStaysProcessed ==
    [][InPoll =>
          /\ processed_ids \subseteq processed_ids'
          /\ (pc' = "poll_ret" /\ download_url' # NoUrl) =>
                download_url'.id \notin processed_ids]_vars

\* a processed item came back with the label in its text, and was passed over
C7_Witness ==
    /\ tick.outcome = "ok"
    /\ tick.reappeared
    /\ processed_ids # {}

\* the poll call is over, by a return or by an exception that left it
PollEnded ==
    \/ pc = "poll_ret"
    \/ pc = "crashed" /\ exc.from = "poll_report_queue"

\* C8: when no completed item with the label ever showed in the feed, the poll
\* call ends by returning None, no sooner than timeout_seconds after it began
\* and no later than one interval_seconds after that.
C8_TimesOutWithinOneInterval ==
    (PollEnded /\ ~appeared) =>
        /\ exc = NoExc
        /\ download_url = NoUrl
        /\ now >= config.timeout_seconds
        /\ now <= config.timeout_seconds + config.interval_seconds

\* C9: a tick that fails, by the JSON not decoding or by fetch giving up, logs
\* a warning, leaves the deadline alone, raises nothing and goes to the sleep.
C9_FailedTickNotFatal ==
    tick.outcome \in {"json_error", "transport_error"} =>
        /\ pc = "poll_sleep"
        /\ exc = NoExc
        /\ tick.logged = "warning"
        /\ timeout = tick.deadline

\* C10: a fetch call makes at most 3 attempts, and when all have failed it
\* fails with a request error.
C10_FetchFailsWithRequestError ==
    /\ attempts <= 3
    /\ fetched.result \notin {"none", "response"} =>
          "RequestException" \in ClassesOf(fetched.result)

\* the positions of the trace that hold an event of the given kind
Of(kind) == {i \in DOMAIN events : events[i].kind = kind}

\* C11: login returns True exactly when the login page came with a CSRF
\* token and the answer to the credentials POST carries neither failure
\* signal; an answer with "site/login" in its URL or "login-form" in its body
\* gives False; without a token login gives False and sends no POST.
C11_LoginTrueIffNoFailureSignal ==
    /\ logged_in = "True" <=>
          \E i \in Of("login_page"), j \in Of("login_post") :
              i < j /\ events[i].ok /\ events[j].signals = {}
    /\ (\E j \in Of("login_post") : events[j].signals # {}) =>
          logged_in = "False"
    /\ (\E i \in Of("login_page") : ~events[i].ok) =>
          logged_in = "False" /\ Of("login_post") = {}

\* the POST was answered with the login form in the body under another URL,
\* and login returned False
C11_Witness ==
    /\ logged_in = "False"
    /\ Of("login_post") # {}
    /\ Last(events).signals = {"login-form"}

\* the three windows of 2024-01-01 .. 2024-03-15
ThreeWindows ==
    <<[start |-> <<1, 1, 2024>>, end |-> <<31, 1, 2024>>, label |-> <<2024, 1>>],
      [start |-> <<1, 2, 2024>>, end |-> <<29, 2, 2024>>, label |-> <<2024, 2>>],
      [start |-> <<1, 3, 2024>>, end |-> <<15, 3, 2024>>, label |-> <<2024, 3>>]>>

\* C12: from 2024-01-01 to 2024-03-15 the generator yields exactly the three
\* windows 01-01-2024..31-01-2024 (2024-01), 01-02-2024..29-02-2024 (2024-02)
\* and 01-03-2024..15-03-2024 (2024-03), in this order.
C12_JanuaryToMidMarch2024 ==
    (config.start_date = <<2024, 1, 1>> /\ config.end_date = <<2024, 3, 15>>) =>
        /\ generate_monthly_ranges(config.start_date, config.end_date) = ThreeWindows
        /\ \A i \in 1..Len(yielded) : i <= 3 /\ yielded[i] = ThreeWindows[i]
        /\ pc = "gen_done" => yielded = ThreeWindows

\* the generator called with 2024-01-01 and 2024-03-15 is exhausted
C12_Witness ==
    /\ pc = "gen_done"
    /\ config.start_date = <<2024, 1, 1>>
    /\ config.end_date = <<2024, 3, 15>>
    /\ Len(yielded) = 3

\* C13: for start = end the generator yields exactly one window, which
\* starts and ends on that day.
C13_SingleDaySingleWindow ==
    CfgStart = CfgEnd =>
        /\ Len(yielded) <= 1
        /\ pc = "gen_done" =>
              /\ Len(yielded) = 1
              /\ WStart(1) = CfgStart
              /\ WEnd(1) = CfgStart

\* start and end are the same 31st, the generator is exhausted
C13_Witness ==
    /\ pc = "gen_done"
    /\ CfgStart = CfgEnd
    /\ CfgStart.d = 31
    /\ Len(yielded) = 1

\* C14: for start > end the generator yields nothing, and the run calls
\* neither request_report_generation nor poll_report_queue nor download_file.
C14_EmptyIntervalNoWork ==
    DateLT(CfgEnd, CfgStart) =>
        /\ generate_monthly_ranges(config.start_date, config.end_date) = <<>>
        /\ yielded = <<>>
        /\ requested = <<>> /\ polled = <<>> /\ downloads = <<>>
        /\ Of("request") \cup Of("poll") \cup Of("download") = {}

\* a run whose end date is the day before its start date got past login and
\* ended
C14_Witness ==
    /\ CfgStart = NextDay(CfgEnd)
    /\ logged_in = "True"
    /\ pc = "done"

\* C15: once the session is open it stays open while the run goes on, and
\* it is closed when the run has ended, by a return or by an exception.
C15_SessionReleasedAtRunEnd ==
    /\ login_calls = 0 => session = "none"
    /\ (login_calls = 1 /\ ~RunEnded) => session = "open"
    /\ (login_calls = 1 /\ RunEnded) => session = "closed"

\* an exception left poll_report_queue and the run, the session is closed
C15_Witness ==
    /\ pc = "crashed"
    /\ exc.from = "poll_report_queue"
    /\ session = "closed"

\* C16: download_file is called exactly with the urls poll_report_queue
\* returned, each at once after the poll that returned it and once only, so
\* there is at most one download per date range.
C16_UrlDownloadedOnce ==
    /\ \A i \in Of("download") :
          /\ events[i].url # NoUrl
          /\ i > 1 /\ events[i - 1].kind = "poll_ret"
          /\ events[i - 1].url = events[i].url
    /\ \A i \in Of("poll_ret") :
          events[i].url # NoUrl =>
              /\ i < Len(events) /\ events[i + 1].kind = "download"
              /\ events[i + 1].url = events[i].url
    /\ \A i, j \in Of("download") :
          i < j => \E k \in Of("request") : i < k /\ k < j
    /\ Len(downloads) = Cardinality(Of("download"))
    /\ \A n \in DOMAIN downloads :
          \E i \in Of("download") :
              /\ events[i].url = downloads[n]
              /\ Cardinality({j \in Of("download") : j <= i}) = n

\* both ranges of a run ended with a download
C16_Witness ==
    /\ pc = "done"
    /\ Len(downloads) = 2
    /\ Cardinality(Of("poll_ret")) = 2

\* the kinds of event that end the processing of a range
EndsRange(e) ==
    \/ e.kind = "request_ret" /\ ~e.ok
    \/ e.kind = "poll_ret" /\ e.url = NoUrl
    \/ e.kind = "download_ret"

\* C18: in each range the calls come in the order request, poll, download:
\* poll_report_queue is called only after request_report_generation returned
\* True for the same range, download_file only with the url that poll
\* returned, and the request of the next range only after the range before
\* has ended and the pacing sleep was taken.
C18_RequestPollDownloadInOrder ==
    \A i \in DOMAIN events :
        LET e == events[i] IN
        /\ e.kind = "request" =>
              /\ i > 1
              /\ \/ events[i - 1].kind = "login_post"
                 \/ /\ events[i - 1].kind = "sleep"
                    /\ EndsRange(events[i - 2])
        /\ e.kind = "request_ret" => events[i - 1].kind = "request"
        /\ e.kind = "poll" =>
              /\ events[i - 1].kind = "request_ret" /\ events[i - 1].ok
              /\ events[i - 2].kind = "request"
              /\ events[i - 2].label = e.label
        /\ e.kind = "poll_ret" => events[i - 1].kind = "poll"
        /\ e.kind = "download" =>
              /\ events[i - 1].kind = "poll_ret"
              /\ events[i - 1].url = e.url /\ e.url # NoUrl
        /\ e.kind = "download_ret" => events[i - 1].kind = "download"
        /\ e.kind = "sleep" => EndsRange(events[i - 1])

\* the first range ended with request_report_generation returning False, the
\* second with a download
C18_Witness ==
    /\ pc = "done"
    /\ Len(requested) = 2
    /\ Len(polled) = 1
    /\ Len(downloads) = 1
    /\ \E i \in Of("request_ret") : ~events[i].ok

\* C19: every range that was taken up is followed by one pacing sleep of
\* rate_limit_seconds (5 when the key is absent), whatever its request, poll
\* or download came to: one sleep lies between the requests of two ranges,
\* and when the run has ended there are as many sleeps as requests.
C19_OneSleepAfterEachRange ==
    /\ \A i \in Of("sleep") :
          events[i].secs = IF config.rate_limit_seconds = <<>>
                           THEN 5 ELSE config.rate_limit_seconds[1]
    /\ \A i, j \in Of("request") :
          (i < j /\ ~\E k \in Of("request") : i < k /\ k < j) =>
              Cardinality({k \in Of("sleep") : i < k /\ k < j}) = 1
    /\ RunEnded => Cardinality(Of("sleep")) = Cardinality(Of("request"))

\* C17: parse_list_page, imported from scrape_esb, gives the test one record
\* for each row element of the document, in document order, each holding the
\* text of every configured field: two records for two rows, the second with
\* sales "500,000".
C17_ParseListPageReturnsRows ==
    pc # "test_import" =>
        /\ exc = NoExc
        /\ Len(rows) = Len(html)
        /\ \A i \in DOMAIN html :
              \A f \in DOMAIN config.fields : rows[i][f] = html[i][f]

\* C20: the i-th window yielded carries the year-month of start advanced by
\* i - 1 calendar months, whatever the day of start, so the labels are
\* pairwise distinct and no two polls of a run have the same label.
C20_LabelsAdvanceByOneMonth ==
    /\ \A i \in 1..Len(yielded) :
          LET n == CfgStart.y * 12 + (CfgStart.m - 1) + (i - 1)
          IN  yielded[i].label = <<n \div 12, (n % 12) + 1>>
    /\ \A i, j \in 1..Len(yielded) : i # j => yielded[i].label # yielded[j].label
    /\ \A i, j \in 1..Len(polled) : i # j => polled[i] # polled[j]

\* three windows from the 31st of December, into the next year
C20_Witness ==
    /\ pc = "gen_done"
    /\ CfgStart.m = 12 /\ CfgStart.d = 31
    /\ Len(yielded) = 3

====
